---- MODULE Spec2Model ----
(***************************************************************************)
(* Model of valentine/main.js: the phase orchestrator (begin handler,      *)
(* transitionToGlobe, transitionToLetter), the globe bridge (initGlobe,    *)
(* waitForGlobe, buildGlobe, scheduleStatusUpdates), the latency counter   *)
(* (animateLatencyCounter) and the typewriter (startTypewriter).           *)
(*                                                                         *)
(* Timers: setTimeout registers a one-shot callback.  `timers` is the list *)
(* of pending timers in the order they will run, each with the time it     *)
(* still has to wait: least remaining time first, the earlier registered   *)
(* first among equals.  The event loop runs the first; the time that has   *)
(* passed is taken off every other pending timer.  Input events (a click)  *)
(* are dispatched between two callbacks.                                   *)
(***************************************************************************)
EXTENDS Integers, Sequences, FiniteSets, TLC

\* ---------------------------------------------------------------- bounds

\* Activations of the begin control considered in one session.
MaxBegins == 2

\* Frames followed after the latency counter has stopped requesting frames.
MaxIdleFrames == 2

\* Paragraphs in the typewriter's target, and characters in one paragraph.
MaxBlocks == 2

MaxTextLen == 2

\* Clicks of the retry control and of the accept control in one session.
MaxRetryClicks == 4

MaxAcceptClicks == 2

\* Terminal lines of the landing screen.
MaxLines == 3

\* Frames of the starfield followed.
MaxFrames == 4

\* Callbacks of the countdown's interval followed.
MaxTicks == 3

\* The waits, in ms, by which time passes between callbacks.
PauseSteps == {200, 300}

\* ------------------------------------------------------ program constants

DISTANCE_MILES == 3084
ARC_FLIGHT_TIME == 7000
\* ARRIVING_THRESHOLD = 0.75, kept as a percentage
ARRIVING_THRESHOLD_PERCENT == 75
CE_DISPLAY_TIME == 2500
TYPEWRITER_SPEED == 25

VARIABLES
  landing,          \* $landing has class 'active'
  globePhase,       \* $globePhase has class 'active'
  letterPhase,      \* $letterPhase has class 'active'
  bodyRomantic,     \* document.body has class 'romantic-phase'
  bodyOverflow,     \* document.body.style.overflow
  btnBegin,         \* $btnBegin.style: [pointerEvents, opacity]
  globeDefined,     \* typeof Globe !== 'undefined'
  runs,             \* one record per invocation of the begin handler
  statusOverlay,    \* $statusOverlay has class 'visible'
  statPacket,       \* $statPacket: [text, classes]
  connectionEstablished, \* $connectionEstablished has class 'visible'
  timers,           \* pending setTimeout callbacks, in the order they will run
  calls,            \* how many times each component entry point was invoked
  phaseLog,         \* history: changes of the 'active' class of the phase containers
  arcLog,           \* history: callbacks of scheduleStatusUpdates that have run
  \* animateLatencyCounter
  clock,            \* performance.now(), in ms
  counterStart,     \* `start` of animateLatencyCounter, -1 before it is called
  lastFrame,        \* `now` of the latest call of update, -1 before the first
  frameRequested,   \* a requestAnimationFrame(update) is pending
  statLatency,      \* $statLatency.textContent, a sequence of characters
  idleFrames,       \* history: frames rendered with no callback pending
  \* startTypewriter
  paragraphs,       \* the <p> of .typewriter-target: [display, nodes]
  typewriters,      \* one closure per call of startTypewriter that got past its
                    \* returns: [texts, pIndex, charIndex, cursor, retirements]
  \* handleRetry, handleAccept
  retryCount,       \* `retryCount`
  retryError,       \* $retryError: [text, visible]
  btnRetry,         \* $btnRetry: [classes, transform]
  askSection,       \* .the-ask: style [opacity, display]
  acceptedState,    \* $acceptedState has class 'visible'
  confettiDefined,  \* typeof confetti === 'function'
  confettiCalls,    \* history: calls of confetti()
  \* startCountdown
  wallDiff,         \* valentineDate - new Date(), in ms, at the latest reading
  countdown,        \* $countdown.textContent: a sequence of pieces of text
  intervalTicks,    \* history: callbacks of setInterval(update, 1000) that have run
  \* initStarfield
  animId,           \* `animId`: the id of the latest requestAnimationFrame(draw)
  requested,        \* ids of the frame requests of draw that are pending
  frameCount,       \* `frameCount`
  canvasSize,       \* <<canvas.width, canvas.height>>
  cleanupLog,       \* history: per call of cleanupStarfield, was Landing active
  \* animateTerminal
  terminalLines,    \* the .terminal-line elements: [delay, visible]
  beginShown        \* $btnBegin has class 'show'

counterVars == <<clock, counterStart, lastFrame, frameRequested, statLatency, idleFrames>>

typewriterVars == <<paragraphs, typewriters>>

askVars == <<retryCount, retryError, btnRetry, askSection, acceptedState, confettiDefined,
             confettiCalls>>

orchestratorVars == <<landing, globePhase, letterPhase, bodyRomantic, bodyOverflow, btnBegin,
                      globeDefined, runs, statusOverlay, statPacket, connectionEstablished,
                      calls, phaseLog, arcLog>>

countdownVars == <<wallDiff, countdown, intervalTicks>>

starfieldVars == <<animId, requested, frameCount, canvasSize, cleanupLog>>

terminalVars == <<terminalLines, beginShown>>

vars == <<orchestratorVars, timers, counterVars, typewriterVars, askVars, countdownVars,
          starfieldVars, terminalVars>>

\* ------------------------------------------------------------ the timers

Timer(kind, arg, delay) == [kind |-> kind, arg |-> arg, left |-> delay]

\* setTimeout: the new timer runs after every pending timer that is due no later
\* than it (the earlier registered of two timers due together runs first).
Schedule(ts, t) ==
  LET k == Cardinality({i \in 1..Len(ts) : ts[i].left <= t.left})
  IN  SubSeq(ts, 1, k) \o <<t>> \o SubSeq(ts, k + 1, Len(ts))

\* The timer of the given kind is the one the event loop runs next.
Fires(kind) == timers # <<>> /\ timers[1].kind = kind

Fired == timers[1]

\* The pending timers once the first has been taken to run: its wait has passed
\* for all of them.
Rest == [j \in 1..(Len(timers) - 1) |-> [timers[j + 1] EXCEPT !.left = @ - timers[1].left]]

\* ---------------------------------------------------------- the typewriter

\* The characters of the paragraphs' markup: two letters and the space.
Alphabet == {"a", "b", " "}

\* A child of a paragraph: a text node of one character (cursor = 0), or the
\* cursor span of typewriter e (cursor = e).
TextNode(c) == [char |-> c, cursor |-> 0]

CursorNode(e) == [char |-> "", cursor |-> e]

MarkupTexts(maxLen) == UNION {[1..k -> Alphabet] : k \in 0..maxLen}

\* The paragraphs as the markup gives them: shown, holding their text.
Queues(maxBlocks, maxLen) ==
  UNION {{[i \in 1..k |-> [display |-> "",
                           nodes |-> [j \in 1..Len(q[i]) |-> TextNode(q[i][j])]]] :
            q \in [1..k -> MarkupTexts(maxLen)]} : k \in 0..maxBlocks}

\* p.textContent, as a sequence of characters
TextContent(p) ==
  LET t == SelectSeq(p.nodes, LAMBDA n : n.cursor = 0)
  IN  [j \in 1..Len(t) |-> t[j].char]

\* p.innerText: the text as rendered (white-space: normal), a run of spaces shown
\* as one space and none at either end; the textContent of a paragraph that is not
\* rendered.
InnerText(p) ==
  LET t == TextContent(p)
      RECURSIVE Squeezed(_)
      Squeezed(i) ==
        IF i > Len(t) THEN <<>>
        ELSE (IF t[i] # " " \/ (i > 1 /\ t[i - 1] # " ") THEN <<t[i]>> ELSE <<>>)
               \o Squeezed(i + 1)
      u == Squeezed(1)
  IN  IF p.display = "none" THEN t
      ELSE IF u # <<>> /\ u[Len(u)] = " " THEN SubSeq(u, 1, Len(u) - 1)
      ELSE u

HasCursor(nodes, e) == \E i \in 1..Len(nodes) : nodes[i].cursor = e

\* p.appendChild(cursor): the span leaves its former parent and ends paragraph k.
AppendCursor(ps, k, e) ==
  [i \in 1..Len(ps) |->
     LET without == SelectSeq(ps[i].nodes, LAMBDA n : n.cursor # e)
     IN  [ps[i] EXCEPT !.nodes = IF i = k THEN Append(without, CursorNode(e)) ELSE without]]

\* p.insertBefore(document.createTextNode(c), cursor)
InsertBeforeCursor(nodes, c, e) ==
  LET i == CHOOSE j \in 1..Len(nodes) : nodes[j].cursor = e
  IN  SubSeq(nodes, 1, i - 1) \o <<TextNode(c)>> \o SubSeq(nodes, i, Len(nodes))

\* The part of the state startTypewriter and its callbacks touch.
Typewriter == [paragraphs |-> paragraphs, typewriters |-> typewriters, timers |-> timers]

\* typeNextParagraph() of typewriter e when pIndex >= paragraphs.length: schedules
\* the fade-out of the cursor.
allDone(T, e) ==
  [T EXCEPT !.timers = Schedule(@, Timer("cursorFade", e, 1500)),
            !.typewriters[e].retirements = @ + 1]

\* typeChar() of the closure typewriter e made for paragraph k (p = paragraphs[k - 1]
\* and fullText = texts[k - 1] in the code's indices).  insertBefore throws when
\* the cursor is not a child of p: the callback then ends there, nothing done.
typeChar(T, e, k) ==
  LET tw == T.typewriters[e]
      fullText == tw.texts[k]
  IN  IF tw.charIndex < Len(fullText)
        THEN IF HasCursor(T.paragraphs[k].nodes, e)
               THEN [T EXCEPT
                       !.paragraphs[k].nodes =
                          InsertBeforeCursor(@, fullText[tw.charIndex + 1], e),
                       !.typewriters[e].charIndex = @ + 1,
                       !.timers = Schedule(@, Timer("typeChar", <<e, k>>, TYPEWRITER_SPEED))]
               ELSE T
        ELSE LET T1 == [T EXCEPT !.typewriters[e].pIndex = @ + 1]
             IN  IF T1.typewriters[e].pIndex < Len(T1.paragraphs)
                   THEN [T1 EXCEPT !.timers = Schedule(@, Timer("typeNextParagraph", e, 400))]
                   ELSE allDone(T1, e)

\* Mutant: a paragraph with no text is passed over without being shown.
typeNextParagraph_PassesOverEmpty(T, e) ==
  IF T.typewriters[e].pIndex >= Len(T.paragraphs)
    THEN allDone(T, e)
    ELSE LET k == T.typewriters[e].pIndex + 1
         IN  IF T.typewriters[e].texts[k] = <<>>
               THEN typeChar([T EXCEPT !.typewriters[e].charIndex = 0], e, k)
               ELSE typeChar([T EXCEPT !.typewriters[e].charIndex = 0,
                                       !.paragraphs =
                                          AppendCursor([@ EXCEPT ![k].display = ""], k, e)],
                             e, k)

\* typeNextParagraph() of typewriter e
typeNextParagraph(T, e) ==
  IF T.typewriters[e].pIndex >= Len(T.paragraphs)
    THEN allDone(T, e)
    ELSE LET k == T.typewriters[e].pIndex + 1
         IN  typeChar([T EXCEPT !.typewriters[e].charIndex = 0,
                                !.paragraphs = AppendCursor([@ EXCEPT ![k].display = ""], k, e)],
                      e, k)

\* startTypewriter(): the target is in the markup; without paragraphs it returns.
startTypewriter(T) ==
  IF T.paragraphs = <<>>
    THEN T
    ELSE [paragraphs  |-> [i \in 1..Len(T.paragraphs) |-> [display |-> "none", nodes |-> <<>>]],
          typewriters |-> Append(T.typewriters,
                                 [texts |-> [i \in 1..Len(T.paragraphs) |->
                                               InnerText(T.paragraphs[i])],
                                  pIndex |-> 0, charIndex |-> 0,
                                  cursor |-> "blinking", retirements |-> 0]),
          timers      |-> Schedule(T.timers,
                                   Timer("typeNextParagraph", Len(T.typewriters) + 1, 1800))]

\* ------------------------------------------------- the phase orchestrator

\* classList.add / classList.remove of 'active', with the change logged.
Activate(log, was, name) == IF was THEN log ELSE Append(log, <<"+", name>>)

Deactivate(log, was, name) == IF was THEN Append(log, <<"-", name>>) ELSE log

\* The part of the state the globe bridge and the await continuation touch.
Bridge == [runs |-> runs, timers |-> timers, globePhase |-> globePhase,
           phaseLog |-> phaseLog, calls |-> calls]

Count(c, name) == [c EXCEPT ![name] = @ + 1]

\* transitionToLetter(), up to its two setTimeout calls.
transitionToLetter(S, r) ==
  [S EXCEPT !.globePhase = FALSE,
            !.phaseLog = Deactivate(@, S.globePhase, "Globe"),
            !.timers = Schedule(Schedule(@, Timer("romantic", r, 600)),
                                 Timer("letter", r, 1200)),
            !.runs[r].letterRuns = @ + 1,
            !.calls = Count(@, "transitionToLetter")]

\* resolve() of the promise of run r, called by `who`.  The first call fulfils the
\* promise; the begin handler suspended at `await initGlobe()` then continues, as a
\* microtask, with transitionToLetter().  A later call has no effect on a promise.
resolve(S, r, who) ==
  LET S1 == [S EXCEPT !.runs[r].resolveCalls = @ + 1,
                      !.runs[r].resolvers = @ \cup {who},
                      !.runs[r].settled = TRUE]
  IN  IF S.runs[r].settled THEN S1 ELSE transitionToLetter(S1, r)

\* buildGlobe(): configures the renderer and schedules the settle timer.
buildGlobe(S, r) ==
  [S EXCEPT !.runs[r].built = @ + 1,
            !.timers = Schedule(@, Timer("settle", r, 1500))]

\* Mutant: the fallback branch hides the loading text and forgets resolve().
waitFallback_NoResolve(S, r, n) == [S EXCEPT !.runs[r].gaveUpAt = n]

\* The fallback branch of waitForGlobe(): the last check of a run that gives up.
waitFallback(S, r, n) ==
  resolve([S EXCEPT !.runs[r].gaveUpAt = n], r, "fallback")

\* Mutant: the attempt bound is off by one (waitAttempts <= 50).
waitForGlobe_OffByOne(S, r, n, defined) ==
  IF defined
    THEN buildGlobe(S, r)
    ELSE IF n <= 50
           THEN [S EXCEPT !.timers = Schedule(@, Timer("waitForGlobe", <<r, n + 1>>, 200))]
           ELSE waitFallback(S, r, n)

\* Mutant: the check that finds the renderer builds and still re-schedules itself.
waitForGlobe_KeepsPolling(S, r, n, defined) ==
  IF defined
    THEN [buildGlobe(S, r) EXCEPT
            !.timers = Schedule(@, Timer("waitForGlobe", <<r, n + 1>>, 200))]
    ELSE IF n < 50
           THEN [S EXCEPT !.timers = Schedule(@, Timer("waitForGlobe", <<r, n + 1>>, 200))]
           ELSE waitFallback(S, r, n)

\* waitForGlobe() of run r, the renderer being defined or not at this check.  n is
\* waitAttempts: a local of initGlobe's promise executor that only the waitForGlobe
\* closure reads, so it lives with the pending callback that holds that closure.
waitForGlobe(S, r, n, defined) ==
  IF defined
    THEN buildGlobe(S, r)
    ELSE IF n < 50
           THEN [S EXCEPT !.timers = Schedule(@, Timer("waitForGlobe", <<r, n + 1>>, 200))]
           ELSE waitFallback(S, r, n)

\* gaveUpAt: waitAttempts at the check that took the fallback branch, -1 if none did.
NewRun ==
  [built |-> 0, gaveUpAt |-> -1, arcRuns |-> 0,
   resolveCalls |-> 0, resolvers |-> {}, settled |-> FALSE, letterRuns |-> 0]

\* What a check of `typeof Globe` can find.  The renderer's script loads at a moment
\* of its own and stays loaded; nothing in the program reacts to the load, only the
\* checks of waitForGlobe read it, so the load is taken where a check first sees it.
Availability == IF globeDefined THEN {TRUE} ELSE BOOLEAN

\* The click listener of $btnBegin, up to its await; `defined` is what the first
\* check of waitForGlobe finds.
BeginHandler(defined) ==
  LET r  == Len(runs) + 1
      \* cleanupStarfield(); transitionToGlobe(); then initGlobe() up to waitForGlobe()
      S0 == [Bridge EXCEPT
               !.phaseLog = Deactivate(@, landing, "Landing"),
               !.timers = Schedule(@, Timer("globeActivate", r, 400)),
               !.runs = Append(@, NewRun),
               !.calls = Count(Count(Count(@, "cleanupStarfield"),
                                     "transitionToGlobe"), "initGlobe")]
      S1 == waitForGlobe(S0, r, 0, defined)
  IN  /\ btnBegin' = [pointerEvents |-> "none", opacity |-> 0]
      /\ landing' = FALSE
      /\ globeDefined' = defined
      /\ runs' = S1.runs
      /\ timers' = S1.timers
      /\ globePhase' = S1.globePhase
      /\ phaseLog' = S1.phaseLog
      /\ calls' = S1.calls
      \* cleanupStarfield is () => cancelAnimationFrame(animId)
      /\ requested' = requested \ {animId}
      /\ cleanupLog' = Append(cleanupLog, landing)
      /\ UNCHANGED <<terminalVars, animId, frameCount, canvasSize,
                     countdownVars, askVars, counterVars, typewriterVars,
                     letterPhase, bodyRomantic, bodyOverflow,
                     statusOverlay, statPacket, connectionEstablished, arcLog>>

\* A click dispatched by the pointer: hit testing skips an element whose
\* pointer-events is 'none'.
BeginPointer ==
  /\ Len(runs) < MaxBegins
  /\ btnBegin.pointerEvents # "none"
  /\ \E defined \in Availability : BeginHandler(defined)

\* A click dispatched by keyboard activation of the focused button (Enter, Space)
\* or by element.click(): pointer-events plays no part.
BeginKeyboard ==
  /\ Len(runs) < MaxBegins
  /\ \E defined \in Availability : BeginHandler(defined)

\* transitionToGlobe's timer.
GlobeActivateTimer ==
  /\ Fires("globeActivate")
  /\ globePhase' = TRUE
  /\ phaseLog' = Activate(phaseLog, globePhase, "Globe")
  /\ timers' = Rest
  /\ UNCHANGED <<terminalVars, starfieldVars, countdownVars, askVars, counterVars, typewriterVars,
                 landing, letterPhase, bodyRomantic, bodyOverflow, btnBegin, globeDefined,
                 runs, statusOverlay, statPacket, connectionEstablished, calls, arcLog>>

\* setTimeout(waitForGlobe, 200)
WaitForGlobeTimer ==
  /\ Fires("waitForGlobe")
  /\ \E defined \in Availability :
       LET S == waitForGlobe([Bridge EXCEPT !.timers = Rest],
                             Fired.arg[1], Fired.arg[2], defined)
       IN  /\ globeDefined' = defined
           /\ runs' = S.runs
           /\ timers' = S.timers
           /\ globePhase' = S.globePhase
           /\ phaseLog' = S.phaseLog
           /\ calls' = S.calls
  /\ UNCHANGED <<terminalVars, starfieldVars, countdownVars, askVars, counterVars, typewriterVars,
                 landing, letterPhase, bodyRomantic, bodyOverflow, btnBegin,
                 statusOverlay, statPacket, connectionEstablished, arcLog>>

\* The delays of the four timers of scheduleStatusUpdates.
ArrivingDelay == (ARC_FLIGHT_TIME * ARRIVING_THRESHOLD_PERCENT) \div 100

DeliveredDelay == ARC_FLIGHT_TIME

EstablishedDelay == ARC_FLIGHT_TIME + 800

ResolveDelay == ARC_FLIGHT_TIME + 800 + CE_DISPLAY_TIME

\* scheduleStatusUpdates(resolve)
scheduleStatusUpdates(ts, r) ==
  Schedule(Schedule(Schedule(Schedule(ts,
    Timer("arriving", r, ArrivingDelay)),
    Timer("delivered", r, DeliveredDelay)),
    Timer("established", r, EstablishedDelay)),
    Timer("resolve", r, ResolveDelay))

\* buildGlobe's settle timer: the arc sequence begins.
SettleTimer ==
  /\ Fires("settle")
  /\ statusOverlay' = TRUE
  /\ calls' = Count(Count(calls, "animateLatencyCounter"), "scheduleStatusUpdates")
  /\ runs' = [runs EXCEPT ![Fired.arg].arcRuns = @ + 1]
  /\ timers' = scheduleStatusUpdates(Rest, Fired.arg)
  /\ UNCHANGED <<terminalVars, starfieldVars, countdownVars, askVars, counterVars, typewriterVars,
                 landing, globePhase, letterPhase, bodyRomantic, bodyOverflow, btnBegin,
                 globeDefined, statPacket, connectionEstablished, phaseLog, arcLog>>

ArrivingTimer ==
  /\ Fires("arriving")
  /\ statPacket' = [text |-> "Arriving...",
                    classes |-> statPacket.classes \cup {"status-arriving"}]
  /\ arcLog' = Append(arcLog, <<"arriving", Fired.arg>>)
  /\ timers' = Rest
  /\ UNCHANGED <<terminalVars, starfieldVars, countdownVars, askVars, counterVars, typewriterVars,
                 landing, globePhase, letterPhase, bodyRomantic, bodyOverflow, btnBegin,
                 globeDefined, runs, statusOverlay, connectionEstablished, calls, phaseLog>>

DeliveredTimer ==
  /\ Fires("delivered")
  /\ statPacket' = [text |-> "Delivered",
                    classes |-> (statPacket.classes \ {"status-arriving"})
                                  \cup {"status-delivered"}]
  /\ arcLog' = Append(arcLog, <<"delivered", Fired.arg>>)
  /\ timers' = Rest
  /\ UNCHANGED <<terminalVars, starfieldVars, countdownVars, askVars, counterVars, typewriterVars,
                 landing, globePhase, letterPhase, bodyRomantic, bodyOverflow, btnBegin,
                 globeDefined, runs, statusOverlay, connectionEstablished, calls, phaseLog>>

\* Mutant: the 'Connection Established' timer resolves too, before the display hold.
EstablishedTimer_AlsoResolves ==
  /\ Fires("established")
  /\ connectionEstablished' = TRUE
  /\ arcLog' = Append(arcLog, <<"established", Fired.arg>>)
  /\ LET S == resolve([Bridge EXCEPT !.timers = Rest], Fired.arg, "established")
     IN  /\ runs' = S.runs
         /\ timers' = S.timers
         /\ globePhase' = S.globePhase
         /\ phaseLog' = S.phaseLog
         /\ calls' = S.calls
  /\ UNCHANGED <<terminalVars, starfieldVars, countdownVars, askVars, counterVars, typewriterVars,
                 landing, letterPhase, bodyRomantic, bodyOverflow, btnBegin, globeDefined,
                 statusOverlay, statPacket>>

EstablishedTimer ==
  /\ Fires("established")
  /\ connectionEstablished' = TRUE
  /\ arcLog' = Append(arcLog, <<"established", Fired.arg>>)
  /\ timers' = Rest
  /\ UNCHANGED <<terminalVars, starfieldVars, countdownVars, askVars, counterVars, typewriterVars,
                 landing, globePhase, letterPhase, bodyRomantic, bodyOverflow, btnBegin,
                 globeDefined, runs, statusOverlay, statPacket, calls, phaseLog>>

ResolveTimer ==
  /\ Fires("resolve")
  /\ LET S == resolve([Bridge EXCEPT !.timers = Rest], Fired.arg, "arc")
     IN  /\ runs' = S.runs
         /\ timers' = S.timers
         /\ globePhase' = S.globePhase
         /\ phaseLog' = S.phaseLog
         /\ calls' = S.calls
  /\ arcLog' = Append(arcLog, <<"resolved", Fired.arg>>)
  /\ UNCHANGED <<terminalVars, starfieldVars, countdownVars, askVars, counterVars, typewriterVars,
                 landing, letterPhase, bodyRomantic, bodyOverflow, btnBegin, globeDefined,
                 statusOverlay, statPacket, connectionEstablished>>

\* transitionToLetter's first timer.
RomanticTimer ==
  /\ Fires("romantic")
  /\ bodyRomantic' = TRUE
  /\ timers' = Rest
  /\ UNCHANGED <<terminalVars, starfieldVars, countdownVars, askVars, counterVars, typewriterVars,
                 landing, globePhase, letterPhase, bodyOverflow, btnBegin, globeDefined,
                 runs, statusOverlay, statPacket, connectionEstablished, calls, phaseLog,
                 arcLog>>

\* transitionToLetter's second timer.  The three components it starts are counted
\* here; the typewriter's own steps are the Typewriter actions below.
LetterTimer ==
  /\ Fires("letter")
  /\ letterPhase' = TRUE
  /\ phaseLog' = Activate(phaseLog, letterPhase, "Letter")
  /\ bodyOverflow' = "auto"
  /\ calls' = Count(Count(Count(calls, "createAmbientParticles"), "startTypewriter"),
                    "startCountdown")
  /\ LET T == startTypewriter([Typewriter EXCEPT !.timers = Rest])
     IN  /\ paragraphs' = T.paragraphs
         /\ typewriters' = T.typewriters
         /\ timers' = T.timers
  /\ UNCHANGED <<terminalVars, starfieldVars, countdownVars, askVars, counterVars,
                 landing, globePhase, bodyRomantic, btnBegin, globeDefined, runs,
                 statusOverlay, statPacket, connectionEstablished, arcLog>>

EntryPoints == {"cleanupStarfield", "transitionToGlobe", "initGlobe", "transitionToLetter",
                "animateLatencyCounter", "scheduleStatusUpdates", "createAmbientParticles",
                "startTypewriter", "startCountdown", "handleAccept", "handleRetry",
                "animateTerminal"}

\* The latency counter before animateLatencyCounter is called.
CounterIdle ==
  /\ counterStart = -1
  /\ lastFrame = -1
  /\ frameRequested = FALSE
  /\ statLatency = <<"0">>
  /\ idleFrames = 0

\* The typewriter before startTypewriter is called.
TypewriterIdle == typewriters = <<>>

\* The terminal of a page without terminal lines, before animateTerminal.
TerminalIdle ==
  /\ terminalLines = <<>>
  /\ beginShown = FALSE

\* The viewport sizes, window.innerWidth by window.innerHeight.
Viewports == {<<320, 568>>, <<768, 1024>>, <<1280, 720>>, <<1920, 1080>>}

\* The starfield after initStarfield(): the canvas is in the markup and sized to
\* the viewport, the first frame is requested.
StarfieldStarted ==
  /\ animId = 1
  /\ requested = {1}
  /\ frameCount = 0
  /\ cleanupLog = <<>>

\* The countdown before startCountdown is called, 1 d 1 h 1 min 1 s before the date.
CountdownIdle ==
  /\ wallDiff = 90061000
  /\ countdown = <<>>
  /\ intervalTicks = 0

\* The ask section as the markup gives it, before any activation of its controls.
AskIdle ==
  /\ retryCount = 0
  /\ retryError = [text |-> "", visible |-> FALSE]
  /\ btnRetry = [classes |-> {}, transform |-> ""]
  /\ askSection = [opacity |-> 1, display |-> ""]
  /\ acceptedState = FALSE
  /\ confettiCalls = 0

\* The orchestrator after init(): Landing is the active phase (the markup's initial
\* state, section 3 of the specification), scrolling is locked, no begin has happened.
OrchestratorInit ==
  /\ landing = TRUE
  /\ globePhase = FALSE
  /\ letterPhase = FALSE
  /\ bodyRomantic = FALSE
  /\ bodyOverflow = "hidden"
  /\ btnBegin = [pointerEvents |-> "auto", opacity |-> 1]
  /\ globeDefined = FALSE
  /\ runs = <<>>
  /\ statusOverlay = FALSE
  /\ statPacket = [text |-> "", classes |-> {}]
  /\ connectionEstablished = FALSE
  /\ calls = [e \in EntryPoints |-> 0]
  /\ phaseLog = <<>>
  /\ arcLog = <<>>

\* The orchestration: the page's own typewriter and counter are followed in
\* TypewriterSpec and CounterSpec.
Init ==
  /\ OrchestratorInit
  /\ timers = <<>>
  /\ clock = 0
  /\ CounterIdle
  /\ paragraphs = <<>>
  /\ TypewriterIdle
  /\ AskIdle
  /\ CountdownIdle
  /\ StarfieldStarted
  /\ TerminalIdle
  /\ canvasSize = <<1280, 720>>
  /\ confettiDefined = FALSE

TimerStep ==
  \/ GlobeActivateTimer
  \/ WaitForGlobeTimer
  \/ SettleTimer
  \/ ArrivingTimer
  \/ DeliveredTimer
  \/ EstablishedTimer
  \/ ResolveTimer
  \/ RomanticTimer
  \/ LetterTimer

Next ==
  \/ BeginPointer
  \/ BeginKeyboard
  \/ TimerStep

Spec == Init /\ [][Next]_vars

\* A pending timer's delay eventually elapses and its callback runs.
FairSpec == Spec /\ WF_vars(TimerStep)

\* ---------------------------------------------------- the latency counter

\* duration = ARC_FLIGHT_TIME * 0.8
CounterDuration == (ARC_FLIGHT_TIME * 8) \div 10

\* performance.now() when animateLatencyCounter is called, and the time from one
\* frame to the next (a late frame, as in a background tab, included).
CounterStartTimes == {0, 100, 300}

FrameGaps == {100, 200, 700, 1600}

RECURSIVE GCD(_, _)
GCD(a, b) == IF b = 0 THEN a ELSE GCD(b, a % b)

\* The fraction num/den in lowest terms, den > 0.
Fraction(num, den) == <<num \div GCD(num, den), den \div GCD(num, den)>>

\* Mutant: the progress is not clamped to 1.
Progress_NoClamp(elapsed) == Fraction(elapsed, CounterDuration)

\* progress = Math.min(elapsed / duration, 1), as a fraction
Progress(elapsed) ==
  IF elapsed >= CounterDuration THEN <<1, 1>> ELSE Fraction(elapsed, CounterDuration)

Cube(x) == x * x * x

\* value = Math.round((1 - Math.pow(1 - progress, 3)) * DISTANCE_MILES), computed
\* exactly on the fraction; Math.round rounds halves up.
CounterValue(progress) ==
  LET a == progress[1]
      b == progress[2]
      n == DISTANCE_MILES * (Cube(b) - Cube(b - a))
  IN  (2 * n + Cube(b)) \div (2 * Cube(b))

DigitChar(d) == <<"0", "1", "2", "3", "4", "5", "6", "7", "8", "9">>[d + 1]

RECURSIVE Digits(_)
Digits(v) == IF v < 10 THEN <<DigitChar(v)>> ELSE Append(Digits(v \div 10), DigitChar(v % 10))

\* value.toLocaleString() in an English locale: the digits in groups of three.
ToLocaleString(v) ==
  LET ds == Digits(v)
      RECURSIVE Grouped(_)
      Grouped(i) ==
        IF i > Len(ds) THEN <<>>
        ELSE (IF i > 1 /\ (Len(ds) - i + 1) % 3 = 0 THEN <<",", ds[i]>> ELSE <<ds[i]>>)
               \o Grouped(i + 1)
  IN  Grouped(1)

\* animateLatencyCounter(), up to its requestAnimationFrame.
AnimateLatencyCounter ==
  /\ counterStart = -1
  /\ counterStart' = clock
  /\ frameRequested' = TRUE
  /\ UNCHANGED <<terminalVars, starfieldVars, countdownVars, askVars, orchestratorVars, timers, typewriterVars, clock, lastFrame, statLatency,
                 idleFrames>>

\* update(now): the frame callback.
UpdateFrame ==
  /\ frameRequested
  /\ \E gap \in FrameGaps :
       LET now      == clock + gap
           progress == Progress(now - counterStart)
       IN  /\ clock' = now
           /\ lastFrame' = now
           /\ statLatency' = ToLocaleString(CounterValue(progress))
           /\ frameRequested' = (progress[1] < progress[2])
  /\ UNCHANGED <<terminalVars, starfieldVars, countdownVars, askVars, orchestratorVars, timers, typewriterVars, counterStart, idleFrames>>

\* A frame is rendered while no callback is requested: nothing runs.
IdleFrame ==
  /\ counterStart # -1
  /\ ~frameRequested
  /\ idleFrames < MaxIdleFrames
  /\ \E gap \in FrameGaps : clock' = clock + gap
  /\ idleFrames' = idleFrames + 1
  /\ UNCHANGED <<terminalVars, starfieldVars, countdownVars, askVars, orchestratorVars, timers, typewriterVars, counterStart, lastFrame,
                 frameRequested, statLatency>>

CounterInit ==
  /\ OrchestratorInit
  /\ timers = <<>>
  /\ clock \in CounterStartTimes
  /\ CounterIdle
  /\ paragraphs = <<>>
  /\ TypewriterIdle
  /\ AskIdle
  /\ CountdownIdle
  /\ StarfieldStarted
  /\ TerminalIdle
  /\ canvasSize = <<1280, 720>>
  /\ confettiDefined = FALSE

CounterNext ==
  \/ AnimateLatencyCounter
  \/ UpdateFrame
  \/ IdleFrame

CounterSpec == CounterInit /\ [][CounterNext]_vars

\* --------------------------------------------- the typewriter's callbacks

\* startTypewriter() as the letter timer of a begin sequence calls it (the rest of
\* that callback is LetterTimer's): once per run of the begin handler, at whatever
\* moment that run has reached its letter timer.
StartTypewriter ==
  /\ calls["startTypewriter"] < MaxBegins
  /\ calls' = Count(calls, "startTypewriter")
  /\ LET T == startTypewriter(Typewriter)
     IN  /\ paragraphs' = T.paragraphs
         /\ typewriters' = T.typewriters
         /\ timers' = T.timers
  /\ UNCHANGED <<terminalVars, starfieldVars, countdownVars, askVars, counterVars, landing, globePhase, letterPhase, bodyRomantic, bodyOverflow,
                 btnBegin, globeDefined, runs, statusOverlay, statPacket,
                 connectionEstablished, phaseLog, arcLog>>

TypeNextParagraphTimer ==
  /\ Fires("typeNextParagraph")
  /\ LET T == typeNextParagraph([Typewriter EXCEPT !.timers = Rest], Fired.arg)
     IN  /\ paragraphs' = T.paragraphs
         /\ typewriters' = T.typewriters
         /\ timers' = T.timers
  /\ UNCHANGED <<terminalVars, starfieldVars, countdownVars, askVars, orchestratorVars, counterVars>>

TypeCharTimer ==
  /\ Fires("typeChar")
  /\ LET T == typeChar([Typewriter EXCEPT !.timers = Rest], Fired.arg[1], Fired.arg[2])
     IN  /\ paragraphs' = T.paragraphs
         /\ typewriters' = T.typewriters
         /\ timers' = T.timers
  /\ UNCHANGED <<terminalVars, starfieldVars, countdownVars, askVars, orchestratorVars, counterVars>>

\* The fade-out timer of the cursor of a typewriter.
CursorFadeTimer ==
  /\ Fires("cursorFade")
  /\ typewriters' = [typewriters EXCEPT ![Fired.arg].cursor = "faded"]
  /\ timers' = Rest
  /\ UNCHANGED <<terminalVars, starfieldVars, countdownVars, askVars, orchestratorVars, counterVars, paragraphs>>

\* The letter phase of pages whose typewriter target holds up to MaxBlocks paragraphs.
TypewriterInit ==
  /\ OrchestratorInit
  /\ timers = <<>>
  /\ clock = 0
  /\ CounterIdle
  /\ paragraphs \in Queues(MaxBlocks, MaxTextLen)
  /\ TypewriterIdle
  /\ AskIdle
  /\ CountdownIdle
  /\ StarfieldStarted
  /\ TerminalIdle
  /\ canvasSize = <<1280, 720>>
  /\ confettiDefined = FALSE

TypewriterNext ==
  \/ StartTypewriter
  \/ TypeNextParagraphTimer
  \/ TypeCharTimer
  \/ CursorFadeTimer

TypewriterSpec == TypewriterInit /\ [][TypewriterNext]_vars

\* ------------------------------------------- the ask: accept and retry

retryMessages == <<"Error: Connection refused.", "Error: Timeout exceeded.",
                   "Rerouting to Accept...">>

\* The orchestrator's state but the call counts.
phaseVars == <<landing, globePhase, letterPhase, bodyRomantic, bodyOverflow, btnBegin,
               globeDefined, runs, statusOverlay, statPacket, connectionEstablished,
               phaseLog, arcLog>>

\* The part of the state handleRetry touches.
Retry == [retryCount |-> retryCount, retryError |-> retryError, btnRetry |-> btnRetry,
          timers |-> timers]

\* Mutant: a click past the last message still counts.
handleRetry_CountsOn(R) ==
  IF R.retryCount >= Len(retryMessages)
    THEN [R EXCEPT !.retryCount = @ + 1]
    ELSE LET n  == R.retryCount
             R1 == [R EXCEPT !.retryError = [text |-> retryMessages[n + 1], visible |-> TRUE]]
             R2 == IF n = 0
                     THEN [R1 EXCEPT !.btnRetry.classes = @ \cup {"shake"},
                                     !.timers = Schedule(@, Timer("shakeOff", n + 1, 500))]
                   ELSE IF n = 1
                     THEN [R1 EXCEPT !.btnRetry.classes = @ \cup {"shake"},
                                     !.timers = Schedule(Schedule(@, Timer("shakeOff", n + 1, 500)),
                                                         Timer("dodge", n + 1, 500))]
                   ELSE [R1 EXCEPT !.btnRetry.classes = @ \cup {"hiding"},
                                   !.timers = Schedule(@, Timer("finalClear", n + 1, 1500))]
             R3 == [R2 EXCEPT !.retryCount = @ + 1]
         IN  IF R3.retryCount < Len(retryMessages)
               THEN [R3 EXCEPT !.timers = Schedule(@, Timer("autoClear", n + 1, 2000))]
               ELSE R3

\* handleRetry().  A timer's arg is the click (1, 2, 3) that set it.
handleRetry(R) ==
  IF R.retryCount >= Len(retryMessages)
    THEN R
    ELSE LET n  == R.retryCount
             R1 == [R EXCEPT !.retryError = [text |-> retryMessages[n + 1], visible |-> TRUE]]
             R2 == IF n = 0
                     THEN [R1 EXCEPT !.btnRetry.classes = @ \cup {"shake"},
                                     !.timers = Schedule(@, Timer("shakeOff", n + 1, 500))]
                   ELSE IF n = 1
                     THEN [R1 EXCEPT !.btnRetry.classes = @ \cup {"shake"},
                                     !.timers = Schedule(Schedule(@, Timer("shakeOff", n + 1, 500)),
                                                         Timer("dodge", n + 1, 500))]
                   ELSE [R1 EXCEPT !.btnRetry.classes = @ \cup {"hiding"},
                                   !.timers = Schedule(@, Timer("finalClear", n + 1, 1500))]
             R3 == [R2 EXCEPT !.retryCount = @ + 1]
         IN  IF R3.retryCount < Len(retryMessages)
               THEN [R3 EXCEPT !.timers = Schedule(@, Timer("autoClear", n + 1, 2000))]
               ELSE R3

\* A click of the retry control, which can be activated while .the-ask is rendered.
RetryClick ==
  /\ calls["handleRetry"] < MaxRetryClicks
  /\ askSection.display # "none"
  /\ calls' = Count(calls, "handleRetry")
  /\ LET R == handleRetry(Retry)
     IN  /\ retryCount' = R.retryCount
         /\ retryError' = R.retryError
         /\ btnRetry' = R.btnRetry
         /\ timers' = R.timers
  /\ UNCHANGED <<terminalVars, starfieldVars, countdownVars, phaseVars, counterVars, typewriterVars, askSection, acceptedState,
                 confettiDefined, confettiCalls>>

\* Mutant: the shake timer resets the control's class list.
ShakeOffTimer_ResetsClasses ==
  /\ Fires("shakeOff")
  /\ btnRetry' = [btnRetry EXCEPT !.classes = {}]
  /\ timers' = Rest
  /\ UNCHANGED <<terminalVars, starfieldVars, countdownVars, orchestratorVars, counterVars, typewriterVars, retryCount, retryError,
                 askSection, acceptedState, confettiDefined, confettiCalls>>

\* () => $btnRetry.classList.remove('shake')
ShakeOffTimer ==
  /\ Fires("shakeOff")
  /\ btnRetry' = [btnRetry EXCEPT !.classes = @ \ {"shake"}]
  /\ timers' = Rest
  /\ UNCHANGED <<terminalVars, starfieldVars, countdownVars, orchestratorVars, counterVars, typewriterVars, retryCount, retryError,
                 askSection, acceptedState, confettiDefined, confettiCalls>>

\* The relocation timer of the second click.  The offsets are random numbers; the
\* transform is kept as set or not set.
DodgeTimer ==
  /\ Fires("dodge")
  /\ btnRetry' = [classes |-> btnRetry.classes \cup {"dodge"}, transform |-> "translate"]
  /\ timers' = Rest
  /\ UNCHANGED <<terminalVars, starfieldVars, countdownVars, orchestratorVars, counterVars, typewriterVars, retryCount, retryError,
                 askSection, acceptedState, confettiDefined, confettiCalls>>

\* The timer of the third click: clears the message.
FinalClearTimer ==
  /\ Fires("finalClear")
  /\ retryError' = [text |-> "", visible |-> FALSE]
  /\ timers' = Rest
  /\ UNCHANGED <<terminalVars, starfieldVars, countdownVars, orchestratorVars, counterVars, typewriterVars, retryCount, btnRetry,
                 askSection, acceptedState, confettiDefined, confettiCalls>>

\* The timer of the first and of the second click: hides the message.
AutoClearTimer ==
  /\ Fires("autoClear")
  /\ retryError' = [retryError EXCEPT !.visible = FALSE]
  /\ timers' = Rest
  /\ UNCHANGED <<terminalVars, starfieldVars, countdownVars, orchestratorVars, counterVars, typewriterVars, retryCount, btnRetry,
                 askSection, acceptedState, confettiDefined, confettiCalls>>

\* The part of the state handleAccept touches.
Accept == [askSection |-> askSection, confettiCalls |-> confettiCalls, timers |-> timers]

\* Mutant: confetti is called without the check of its availability; the call of
\* an undefined confetti throws and handleAccept ends there.
handleAccept_Unchecked(A, defined) ==
  IF defined
    THEN [A EXCEPT !.confettiCalls = @ + 1,
                   !.askSection = [opacity |-> 0, display |-> A.askSection.display],
                   !.timers = Schedule(Schedule(Schedule(Schedule(@,
                                Timer("burst", 2, 200)), Timer("burst", 3, 400)),
                                Timer("burst", 4, 600)), Timer("swap", 0, 800))]
    ELSE A

\* handleAccept(), given typeof confetti === 'function'
handleAccept(A, defined) ==
  LET A1 == IF defined
              THEN [A EXCEPT !.confettiCalls = @ + 1,
                             !.timers = Schedule(Schedule(Schedule(@,
                                          Timer("burst", 2, 200)), Timer("burst", 3, 400)),
                                          Timer("burst", 4, 600))]
              ELSE A
  IN  [A1 EXCEPT !.askSection = [opacity |-> 0, display |-> A.askSection.display],
                 !.timers = Schedule(@, Timer("swap", 0, 800))]

\* A click of the accept control, which can be activated while .the-ask is rendered
\* (an opacity of 0 takes no part in hit testing or focus).
AcceptClick ==
  /\ calls["handleAccept"] < MaxAcceptClicks
  /\ askSection.display # "none"
  /\ calls' = Count(calls, "handleAccept")
  /\ LET A == handleAccept(Accept, confettiDefined)
     IN  /\ askSection' = A.askSection
         /\ confettiCalls' = A.confettiCalls
         /\ timers' = A.timers
  /\ UNCHANGED <<terminalVars, starfieldVars, countdownVars, phaseVars, counterVars, typewriterVars, retryCount, retryError, btnRetry,
                 acceptedState, confettiDefined>>

\* The second, third and fourth burst.
BurstTimer ==
  /\ Fires("burst")
  /\ confettiCalls' = confettiCalls + 1
  /\ timers' = Rest
  /\ UNCHANGED <<terminalVars, starfieldVars, countdownVars, orchestratorVars, counterVars, typewriterVars, retryCount, retryError,
                 btnRetry, askSection, acceptedState, confettiDefined>>

\* The timer that removes the ask section and shows the accepted state.
SwapTimer ==
  /\ Fires("swap")
  /\ askSection' = [askSection EXCEPT !.display = "none"]
  /\ acceptedState' = TRUE
  /\ timers' = Rest
  /\ UNCHANGED <<terminalVars, starfieldVars, countdownVars, orchestratorVars, counterVars, typewriterVars, retryCount, retryError,
                 btnRetry, confettiDefined, confettiCalls>>

\* Time passes with no callback due: every pending timer comes closer by d.
Pause ==
  /\ timers # <<>>
  /\ \E d \in PauseSteps :
       /\ d < timers[1].left
       /\ timers' = [j \in 1..Len(timers) |-> [timers[j] EXCEPT !.left = @ - d]]
  /\ UNCHANGED <<terminalVars, starfieldVars, countdownVars, orchestratorVars, counterVars, typewriterVars, askVars>>

\* The controls of the ask section, with or without the confetti library loaded.
AskInit ==
  /\ OrchestratorInit
  /\ timers = <<>>
  /\ clock = 0
  /\ CounterIdle
  /\ paragraphs = <<>>
  /\ TypewriterIdle
  /\ AskIdle
  /\ CountdownIdle
  /\ StarfieldStarted
  /\ TerminalIdle
  /\ canvasSize = <<1280, 720>>
  /\ confettiDefined \in BOOLEAN

AskNext ==
  \/ RetryClick
  \/ AcceptClick
  \/ ShakeOffTimer
  \/ DodgeTimer
  \/ FinalClearTimer
  \/ AutoClearTimer
  \/ BurstTimer
  \/ SwapTimer
  \/ Pause

AskSpec == AskInit /\ [][AskNext]_vars

\* ----------------------------------------------------------- the countdown

\* String(v).padStart(2, '0')
PadStart2(v) == IF Len(Digits(v)) < 2 THEN <<"0">> \o Digits(v) ELSE Digits(v)

\* parts.join(' ')
RECURSIVE Join(_)
Join(parts) ==
  IF parts = <<>> THEN <<>>
  ELSE IF Len(parts) = 1 THEN parts[1]
  ELSE parts[1] \o <<" ">> \o Join(Tail(parts))

\* Mutant: the days part is pushed also when days is 0.
CountdownParts_AlwaysDays(diff) ==
  LET days    == diff \div (1000 * 60 * 60 * 24)
      hours   == (diff % (1000 * 60 * 60 * 24)) \div (1000 * 60 * 60)
      minutes == (diff % (1000 * 60 * 60)) \div (1000 * 60)
      seconds == (diff % (1000 * 60)) \div 1000
  IN  <<Digits(days) \o <<"d">>>>
        \o <<PadStart2(hours) \o <<"h">>, PadStart2(minutes) \o <<"m">>,
             PadStart2(seconds) \o <<"s">>>>

\* `parts` of update(), for diff > 0
CountdownParts(diff) ==
  LET days    == diff \div (1000 * 60 * 60 * 24)
      hours   == (diff % (1000 * 60 * 60 * 24)) \div (1000 * 60 * 60)
      minutes == (diff % (1000 * 60 * 60)) \div (1000 * 60)
      seconds == (diff % (1000 * 60)) \div 1000
  IN  (IF days > 0 THEN <<Digits(days) \o <<"d">>>> ELSE <<>>)
        \o <<PadStart2(hours) \o <<"h">>, PadStart2(minutes) \o <<"m">>,
             PadStart2(seconds) \o <<"s">>>>

\* update() of startCountdown: the text it writes, given diff.  The two fixed
\* texts are kept as one piece each, the parts character by character.
CountdownText(diff) ==
  IF diff <= 0
    THEN <<"Happy Valentine's Day">>
    ELSE <<"// Valentine's Day in ">> \o Join(CountdownParts(diff))

\* The remaining time when startCountdown is called: past and on the date, and
\* every mix of small, carrying and two-digit fields.
FieldValues(top) == {0, 1, 2, 10, top}

WallDiffs ==
  {-86400000, -1, 0}
    \cup {d * 86400000 + h * 3600000 + m * 60000 + s * 1000 + ms :
            d \in {0, 1, 12}, h \in FieldValues(23), m \in FieldValues(59),
            s \in FieldValues(59), ms \in {0, 999}}

\* The time from one reading of the clock to the next, in ms.
TickSteps == {1000, 1001}

\* startCountdown(): the first update(); setInterval starts the ticks.
StartCountdown ==
  /\ calls["startCountdown"] = 0
  /\ calls' = Count(calls, "startCountdown")
  /\ countdown' = CountdownText(wallDiff)
  /\ UNCHANGED <<terminalVars, starfieldVars, phaseVars, timers, counterVars, typewriterVars, askVars, wallDiff,
                 intervalTicks>>

\* A callback of setInterval(update, 1000).
IntervalTick ==
  /\ calls["startCountdown"] > 0
  /\ intervalTicks < MaxTicks
  /\ \E step \in TickSteps :
       /\ wallDiff' = wallDiff - step
       /\ countdown' = CountdownText(wallDiff - step)
  /\ intervalTicks' = intervalTicks + 1
  /\ UNCHANGED <<terminalVars, starfieldVars, orchestratorVars, timers, counterVars, typewriterVars, askVars>>

CountdownInit ==
  /\ OrchestratorInit
  /\ timers = <<>>
  /\ clock = 0
  /\ CounterIdle
  /\ paragraphs = <<>>
  /\ TypewriterIdle
  /\ AskIdle
  /\ confettiDefined = FALSE
  /\ wallDiff \in WallDiffs
  /\ countdown = <<>>
  /\ intervalTicks = 0
  /\ StarfieldStarted
  /\ TerminalIdle
  /\ canvasSize = <<1280, 720>>

CountdownNext ==
  \/ StartCountdown
  \/ IntervalTick

CountdownSpec == CountdownInit /\ [][CountdownNext]_vars

\* ----------------------------------------------------------- the starfield

\* draw(), run by the browser for a pending frame request: it paints and requests
\* the next frame.
DrawFrame ==
  /\ frameCount < MaxFrames
  /\ \E id \in requested :
       /\ animId' = animId + 1
       /\ requested' = (requested \ {id}) \cup {animId + 1}
  /\ frameCount' = frameCount + 1
  /\ UNCHANGED <<terminalVars, orchestratorVars, timers, counterVars, typewriterVars, askVars,
                 countdownVars, canvasSize, cleanupLog>>

\* The resize listener of window: resize(); createStars().  The stars are random
\* and are not kept.
Resize ==
  /\ \E size \in Viewports \ {canvasSize} : canvasSize' = size
  /\ UNCHANGED <<terminalVars, orchestratorVars, timers, counterVars, typewriterVars, askVars,
                 countdownVars, animId, requested, frameCount, cleanupLog>>

\* The landing screen in any viewport, up to the begin clicks.
StarfieldInit ==
  /\ OrchestratorInit
  /\ timers = <<>>
  /\ clock = 0
  /\ CounterIdle
  /\ paragraphs = <<>>
  /\ TypewriterIdle
  /\ AskIdle
  /\ confettiDefined = FALSE
  /\ CountdownIdle
  /\ StarfieldStarted
  /\ TerminalIdle
  /\ canvasSize \in Viewports

StarfieldNext ==
  \/ BeginPointer
  \/ BeginKeyboard
  \/ DrawFrame
  \/ Resize

StarfieldSpec == StarfieldInit /\ [][StarfieldNext]_vars

\* ------------------------------------------------------------ properties

Runs == 1..Len(runs)

Pending(kinds, r) ==
  {i \in 1..Len(timers) :
     /\ timers[i].kind \in kinds
     /\ IF timers[i].kind = "waitForGlobe" THEN timers[i].arg[1] = r
                                           ELSE timers[i].arg = r}

IsPrefix(s, t) == Len(s) <= Len(t) /\ \A i \in 1..Len(s) : s[i] = t[i]

\* C1: the phase containers are activated in the order Landing (active from the
\* start), Globe, Letter, each at most once, and a container that has been
\* deactivated is never activated again.
C1_PhaseOrder ==
  /\ IsPrefix(SelectSeq(phaseLog, LAMBDA e : e[1] = "+"),
              << <<"+", "Globe">>, <<"+", "Letter">> >>)
  /\ \A i, j \in 1..Len(phaseLog) :
       i < j /\ phaseLog[i][1] = "-" /\ phaseLog[j][1] = "+"
         => phaseLog[i][2] # phaseLog[j][2]

ActiveContainers ==
  {c \in {"Landing", "Globe", "Letter"} :
     \/ c = "Landing" /\ landing
     \/ c = "Globe" /\ globePhase
     \/ c = "Letter" /\ letterPhase}

\* From the deactivation of the Globe container to the activation of Letter.
InTransition ==
  /\ \E i \in 1..Len(phaseLog) : phaseLog[i] = <<"-", "Globe">>
  /\ ~letterPhase

\* C2: two phase containers are never active at the same time, and no container
\* is active only during the Transition interval.
C2_ExactlyOnePhase ==
  /\ Cardinality(ActiveContainers) <= 1
  /\ ActiveContainers = {} => InTransition

\* C3: the begin sequence runs at most once per session: starfield teardown,
\* transitionToGlobe, initGlobe and transitionToLetter are each started at most once.
C3_BeginOnce ==
  \A e \in {"cleanupStarfield", "transitionToGlobe", "initGlobe", "transitionToLetter"} :
    calls[e] <= 1

\* C4: a run whose every availability check finds the renderer undefined re-schedules
\* the check at most 50 times, 200 ms ahead each time, builds nothing, and resolves
\* at the check made with 50 re-schedules behind it (the 51st check) and at no other.
C4_BoundedPolling ==
  /\ \A i \in 1..Len(timers) :
       timers[i].kind = "waitForGlobe" =>
         /\ timers[i].arg[2] \in 1..50
         /\ timers[i].left \in 0..200
         /\ runs[timers[i].arg[1]].built = 0
         /\ runs[timers[i].arg[1]].resolveCalls = 0
  /\ \A r \in Runs :
       /\ Cardinality(Pending({"waitForGlobe"}, r)) <= 1
       /\ runs[r].gaveUpAt \in {-1, 50}
       /\ "fallback" \in runs[r].resolvers <=> runs[r].gaveUpAt = 50
       /\ runs[r].gaveUpAt = 50 =>
            /\ runs[r].built = 0 /\ runs[r].arcRuns = 0
            /\ Pending({"waitForGlobe", "settle", "arriving", "delivered",
                        "established", "resolve"}, r) = {}

\* A run gave up after 50 re-schedules and went on to the letter.
C4_Witness ==
  \E r \in Runs : runs[r].gaveUpAt = 50 /\ runs[r].built = 0 /\ runs[r].settled

\* C5: once the begin control has been activated, the Letter phase eventually
\* becomes active, whether the renderer is defined at the first check, becomes
\* defined at a later check or never does (checked under FairSpec).
C5_LetterEventually == (runs # <<>>) ~> letterPhase

\* The letter is reached although the renderer never became available.
C5_Witness ==
  letterPhase /\ ~globeDefined /\ \E r \in Runs : "fallback" \in runs[r].resolvers

BridgeTimers == {"waitForGlobe", "settle", "arriving", "delivered", "established", "resolve"}

\* C6: in each run of initGlobe resolve() is called exactly once, by the fallback
\* branch or by the last timer of scheduleStatusUpdates and not by both, and
\* transitionToLetter runs once, at that resolution and not before: a run that is
\* not resolved yet still has a callback of the bridge pending, a resolved one has
\* none that could resolve again.
C6_SingleResolution ==
  \A r \in Runs :
    /\ runs[r].resolveCalls <= 1
    /\ runs[r].resolvers \in {{}, {"fallback"}, {"arc"}}
    /\ runs[r].letterRuns = runs[r].resolveCalls
    /\ runs[r].settled <=> runs[r].resolveCalls = 1
    /\ runs[r].resolveCalls = 0 => Pending(BridgeTimers, r) # {}
    /\ runs[r].resolveCalls = 1 => Pending(BridgeTimers, r) = {}
    /\ runs[r].built = 1 /\ runs[r].settled => runs[r].resolvers = {"arc"}

\* A run resolved by the last timer of the arc sequence, with its letter transition.
C6_Witness ==
  \E r \in Runs : runs[r].resolvers = {"arc"} /\ runs[r].letterRuns = 1

\* The arc progress marker, read off the status display.
ArcProgress ==
  IF connectionEstablished THEN 3
  ELSE IF statPacket.text = "Delivered" THEN 2
  ELSE IF statusOverlay THEN 1
  ELSE 0

PacketRank ==
  IF statPacket.text = "Delivered" THEN 2
  ELSE IF statPacket.text = "Arriving..." THEN 1
  ELSE 0

ArcOrder == <<"arriving", "delivered", "established", "resolved">>

\* C7: the four events of an arc sequence fire in the order arriving, delivered,
\* established, resolved; the progress shown (overlay, packet status, connection
\* established) only moves forward; the promise is not resolved before the
\* connection-established indicator is visible.
C7_ArcForward ==
  [][ /\ ArcProgress' >= ArcProgress
      /\ PacketRank' >= PacketRank
      /\ \A r \in 1..Len(runs') :
           /\ IsPrefix([i \in 1..Len(SelectSeq(arcLog', LAMBDA e : e[2] = r)) |->
                          SelectSeq(arcLog', LAMBDA e : e[2] = r)[i][1]], ArcOrder)
           /\ "arc" \in runs'[r].resolvers => connectionEstablished' ]_vars

DigitValue(c) == CHOOSE d \in 0..9 : DigitChar(d) = c

\* The number a text of digits and group separators shows.
RECURSIVE NumberShown(_)
NumberShown(text) ==
  IF text = <<>> THEN 0
  ELSE IF text[Len(text)] = ","
         THEN NumberShown(SubSeq(text, 1, Len(text) - 1))
         ELSE 10 * NumberShown(SubSeq(text, 1, Len(text) - 1)) + DigitValue(text[Len(text)])

Revealed(i) == TextContent(paragraphs[i])

\* The paragraphs partly revealed, against the texts typewriter e stored.
PartlyRevealed(e) ==
  {i \in 1..Len(paragraphs) :
     0 < Len(Revealed(i)) /\ Len(Revealed(i)) < Len(typewriters[e].texts[i])}

\* C9: in every state of a typewriter on a queue of N >= 1 blocks, at most one
\* block is partly revealed; every block before the one being typed shows its full
\* text; every block after it shows nothing and is hidden; the block being typed
\* shows the first charIndex characters of its text, in order.
C9_OneBlockInProgress ==
  \A e \in 1..Len(typewriters) :
    LET tw == typewriters[e]
    IN  /\ Cardinality(PartlyRevealed(e)) <= 1
        /\ \A i \in 1..Len(paragraphs) :
             /\ i < tw.pIndex + 1 => Revealed(i) = tw.texts[i]
             /\ i > tw.pIndex + 1 => Revealed(i) = <<>> /\ paragraphs[i].display = "none"
             /\ i = tw.pIndex + 1 /\ paragraphs[i].display = "" =>
                  /\ tw.charIndex <= Len(tw.texts[i])
                  /\ Revealed(i) = SubSeq(tw.texts[i], 1, tw.charIndex)

RECURSIVE Concat(_)
Concat(ss) == IF ss = <<>> THEN <<>> ELSE Head(ss) \o Concat(Tail(ss))

\* The typing callbacks still pending.
EngineTimers == {i \in 1..Len(timers) : timers[i].kind \in {"typeNextParagraph", "typeChar"}}

\* Typewriter e has run to completion.
Completed(e) ==
  /\ typewriters[e].pIndex = Len(paragraphs)
  /\ typewriters[e].retirements = 1
  /\ \A i \in 1..Len(paragraphs) : Revealed(i) = typewriters[e].texts[i]
  /\ Concat([i \in 1..Len(paragraphs) |-> Revealed(i)]) = Concat(typewriters[e].texts)

\* C10: for every queue of N blocks the typewriter, once started, runs to
\* completion: when none of its typing callbacks is pending any more, pIndex is N,
\* the cursor retirement has been scheduled, and every block shows its source text,
\* so that the revealed texts concatenated are the source texts concatenated.
C10_RunsToCompletion ==
  calls["startTypewriter"] > 0 /\ EngineTimers = {} =>
    /\ typewriters # <<>>
    /\ \A e \in 1..Len(typewriters) : Completed(e)

\* The step is the typeNextParagraph callback of typewriter e starting paragraph k,
\* whose stored text is empty.
StartsEmptyBlock(e, k) ==
  /\ Fires("typeNextParagraph")
  /\ calls' = calls
  /\ Fired.arg = e
  /\ k = typewriters[e].pIndex + 1
  /\ k <= Len(paragraphs)
  /\ typewriters[e].texts[k] = <<>>

\* C11: a block with empty text, at any position, is made visible and receives the
\* cursor, has no character appended and completes in the step that starts it: the
\* typewriter moves on by exactly one block, to the next block after the
\* inter-block pause of 400 ms, or to the cursor retirement after the last block.
C11_EmptyBlockCompletes ==
  [][\A e \in 1..Len(typewriters) : \A k \in 1..Len(paragraphs) :
       StartsEmptyBlock(e, k) =>
         /\ paragraphs'[k].display = ""
         /\ HasCursor(paragraphs'[k].nodes, e)
         /\ TextContent(paragraphs'[k]) = TextContent(paragraphs[k])
         /\ typewriters'[e].pIndex = k
         /\ typewriters'[e].charIndex = 0
         /\ \A i \in 1..Len(timers') : ~(timers'[i].kind = "typeChar" /\ timers'[i].arg[1] = e)
         /\ IF k < Len(paragraphs)
              THEN /\ \E i \in 1..Len(timers') :
                        timers'[i] = Timer("typeNextParagraph", e, 400)
                   /\ typewriters'[e].retirements = typewriters[e].retirements
              ELSE /\ typewriters'[e].retirements = typewriters[e].retirements + 1
                   /\ \E i \in 1..Len(timers') : timers'[i] = Timer("cursorFade", e, 1500)
                   /\ \A i \in 1..Len(timers') :
                        ~(timers'[i].kind = "typeNextParagraph" /\ timers'[i].arg = e)]_vars

\* Two empty blocks, one followed by another block and one last, have been passed:
\* both are shown, the second holds the cursor, the retirement is scheduled.
C11_Witness ==
  /\ Len(paragraphs) = 2
  /\ Len(typewriters) = 1
  /\ typewriters[1].texts = <<<<>>, <<>>>>
  /\ typewriters[1].pIndex = 2
  /\ typewriters[1].retirements = 1
  /\ paragraphs[1].display = "" /\ paragraphs[2].display = ""
  /\ HasCursor(paragraphs[2].nodes, 1)

Min(a, b) == IF a < b THEN a ELSE b

\* The step is a click of the retry control.
RetryActivation == calls'["handleRetry"] = calls["handleRetry"] + 1

\* C12: after n activations of the retry control retryCount is min(n, 3); it never
\* decreases; the k-th activation (k <= 3) displays retryMessages[k-1] (from 0); an
\* activation made with retryCount = 3 changes neither retryCount, nor the message,
\* nor the control, and schedules no timer.
C12_RetryBounded ==
  /\ [](retryCount = Min(calls["handleRetry"], 3))
  /\ [][/\ retryCount' >= retryCount
        /\ RetryActivation =>
             IF calls'["handleRetry"] <= 3
               THEN retryError' = [text |-> retryMessages[calls'["handleRetry"]],
                                   visible |-> TRUE]
               ELSE /\ retryCount' = retryCount
                    /\ retryError' = retryError
                    /\ btnRetry' = btnRetry
                    /\ timers' = timers]_vars

\* A fourth activation has been made, between the third and the firing of its timer.
C12_Witness ==
  /\ calls["handleRetry"] = 4
  /\ retryCount = 3
  /\ retryError = [text |-> retryMessages[3], visible |-> TRUE]
  /\ \E i \in 1..Len(timers) : timers[i].kind = "finalClear"

\* C13: the third message, once displayed, stays displayed until the clear timer of
\* the third activation fires; no auto-clear timer of the first or second
\* activation hides it earlier.
C13_FinalMessageStays ==
  (\E i \in 1..Len(timers) : timers[i].kind = "finalClear") =>
    retryError = [text |-> retryMessages[3], visible |-> TRUE]

\* The step is the relocation timer's callback.
DodgeFires == Fires("dodge") /\ Len(timers') = Len(timers) - 1

\* C14: when the relocation timer of the second activation fires after the third
\* activation has hidden the control, it leaves the control unchanged.
C14_StaleDodgeNoOp ==
  [][DodgeFires /\ "hiding" \in btnRetry.classes => btnRetry' = btnRetry]_vars

\* C15: the control has the hidden marker from the third activation on and not
\* before, and no later step removes it.
C15_HiddenForGood ==
  /\ [](("hiding" \in btnRetry.classes) <=> (calls["handleRetry"] >= 3))
  /\ [][("hiding" \in btnRetry.classes) => ("hiding" \in btnRetry'.classes)]_vars

\* The control was hidden before the timers of the second activation fired; they
\* and a fourth activation have come since.
C15_Witness ==
  /\ "hiding" \in btnRetry.classes
  /\ "dodge" \in btnRetry.classes
  /\ "shake" \notin btnRetry.classes
  /\ calls["handleRetry"] = 4
  /\ ~(\E i \in 1..Len(timers) : timers[i].kind \in {"shakeOff", "dodge"})

\* C16: after the first activation of the accept control no activation of the
\* accept or of the retry control runs its handler, and the burst sequence of four
\* confetti calls is started at most once.
C16_AcceptOneShot ==
  /\ [](confettiCalls <= 4)
  /\ [][calls["handleAccept"] >= 1 =>
          /\ calls'["handleAccept"] = calls["handleAccept"]
          /\ calls'["handleRetry"] = calls["handleRetry"]]_vars

\* The step is the callback of the 800 ms timer of handleAccept.
SwapFires == Fires("swap") /\ Len(timers') = Len(timers) - 1

\* C17: with confetti unavailable, an activation of the accept control calls no
\* confetti, now or by a timer, starts the fade of the ask section at once and
\* sets the 800 ms timer; when that timer fires the ask section is removed and the
\* accepted display is visible.  The accepted display is not visible before an
\* accept activation.
C17_AcceptWithoutConfetti ==
  /\ [](acceptedState => calls["handleAccept"] >= 1)
  /\ [](~confettiDefined =>
          /\ confettiCalls = 0
          /\ \A i \in 1..Len(timers) : timers[i].kind # "burst")
  /\ [][~confettiDefined =>
          /\ calls'["handleAccept"] = calls["handleAccept"] + 1 =>
               /\ askSection'.opacity = 0
               /\ \E i \in 1..Len(timers') : timers'[i] = Timer("swap", 0, 800)
          /\ SwapFires =>
               /\ askSection'.display = "none"
               /\ acceptedState']_vars

\* Accept was activated without confetti and the swap has been made.
C17_Witness ==
  /\ ~confettiDefined
  /\ calls["handleAccept"] = 1
  /\ acceptedState
  /\ askSection = [opacity |-> 0, display |-> "none"]
  /\ confettiCalls = 0

\* The rendered text after its fixed beginning, cut at the spaces.
RECURSIVE SplitAtSpaces(_)
SplitAtSpaces(chars) ==
  IF \A i \in 1..Len(chars) : chars[i] # " "
    THEN <<chars>>
    ELSE LET i == CHOOSE j \in 1..Len(chars) :
                    chars[j] = " " /\ \A l \in 1..(j - 1) : chars[l] # " "
         IN  <<SubSeq(chars, 1, i - 1)>> \o SplitAtSpaces(SubSeq(chars, i + 1, Len(chars)))

\* A rendered field is a number followed by its unit.
FieldNumber(field) == NumberShown(SubSeq(field, 1, Len(field) - 1))

FieldUnit(field) == field[Len(field)]

\* C18: for diff <= 0 the countdown shows the completion message.  Otherwise,
\* after the fixed beginning, it shows hours, minutes and seconds as two digits
\* each, preceded by the days exactly when days > 0, the four numbers being those
\* of diff: days = floor(diff/86400000), hours = floor((diff mod 86400000)/3600000),
\* minutes = floor((diff mod 3600000)/60000), seconds = floor((diff mod 60000)/1000).
\* For diff = 90061000 the fields read 1d 01h 01m 01s.
C18_CountdownFields ==
  calls["startCountdown"] > 0 =>
    IF wallDiff <= 0
      THEN countdown = <<"Happy Valentine's Day">>
      ELSE LET fields == SplitAtSpaces(Tail(countdown))
               hms    == SubSeq(fields, Len(fields) - 2, Len(fields))
               days   == IF Len(fields) = 4 THEN FieldNumber(fields[1]) ELSE 0
               whole  == days * 86400000 + FieldNumber(hms[1]) * 3600000
                           + FieldNumber(hms[2]) * 60000 + FieldNumber(hms[3]) * 1000
           IN  /\ Head(countdown) = "// Valentine's Day in "
               /\ Len(fields) \in {3, 4}
               /\ Len(fields) = 4 <=> wallDiff >= 86400000
               /\ Len(fields) = 4 => FieldUnit(fields[1]) = "d" /\ days > 0
                                       /\ fields[1][1] # "0"
               /\ <<FieldUnit(hms[1]), FieldUnit(hms[2]), FieldUnit(hms[3])>> = <<"h", "m", "s">>
               /\ \A i \in 1..3 : Len(hms[i]) = 3
               /\ FieldNumber(hms[1]) < 24 /\ FieldNumber(hms[2]) < 60 /\ FieldNumber(hms[3]) < 60
               /\ whole <= wallDiff /\ wallDiff < whole + 1000
               /\ wallDiff = 90061000 =>
                    Tail(countdown) = <<"1", "d", " ", "0", "1", "h", " ", "0", "1", "m", " ",
                                        "0", "1", "s">>

\* The countdown was started 1 d 1 h 1 min 2 s before the date and has ticked
\* once since: it reads 1d 01h 01m 01s.
C18_Witness ==
  /\ wallDiff = 90061000
  /\ intervalTicks = 1
  /\ Tail(countdown) = <<"1", "d", " ", "0", "1", "h", " ", "0", "1", "m", " ",
                         "0", "1", "s">>

\* C19: on begin the starfield's teardown is invoked exactly once, while Landing is
\* still active; once it has been invoked no frame request of draw is pending and
\* draw does not run again, whatever came before and whatever resize comes after.
C19_StarfieldTornDownOnce ==
  /\ [](runs # <<>> =>
          /\ cleanupLog = <<TRUE>>
          /\ calls["cleanupStarfield"] = 1
          /\ requested = {})
  /\ [][cleanupLog # <<>> => frameCount' = frameCount /\ animId' = animId]_vars

\* The components the letter timer starts.
LetterStarts == {"createAmbientParticles", "startTypewriter", "startCountdown"}

\* C20: the Transition goes Globe deactivated, then romantic theme applied, then
\* Letter activated; scrolling is unlocked and the typewriter, the countdown and the
\* ambient particles are started at the Letter activation step, never before it:
\* while Landing or Globe is active scrolling is locked and none of them has started.
C20_TransitionOrder ==
  /\ [](bodyRomantic => ~globePhase)
  /\ [](letterPhase => bodyRomantic)
  /\ [](landing \/ globePhase =>
          /\ bodyOverflow = "hidden"
          /\ \A e \in LetterStarts : calls[e] = 0
          /\ typewriters = <<>>)
  /\ [][(bodyOverflow' # bodyOverflow \/ \E e \in LetterStarts : calls'[e] # calls[e]) =>
          /\ Fires("letter")
          /\ letterPhase'
          /\ bodyOverflow' = "auto"
          /\ \A e \in LetterStarts : calls'[e] = calls[e] + 1]_vars

\* ------------------------------------------------------------ the terminal

\* The data-delay attribute of a line, as written in the markup: a text of digits,
\* empty for a line without the attribute.
DelayAttrs == {<<>>, <<"0">>, <<"6", "0", "0">>, <<"1", "4", "0", "0">>}

\* parseInt(text, 10): NaN for a missing attribute, else the number written.
ParseInt(text) ==
  IF text = <<>> THEN [nan |-> TRUE, value |-> 0]
  ELSE [nan |-> FALSE, value |-> NumberShown(text)]

\* n || fallback: NaN and 0 are falsy.
OrElse(n, fallback) == IF n.nan \/ n.value = 0 THEN fallback ELSE n.value

\* `delay` of line i (from 0)
LineDelay(line, i) == OrElse(ParseInt(line.delay), i * 600)

\* `totalDelay`: the reduce over the lines, from 0
RECURSIVE TotalDelay(_)
TotalDelay(lines) ==
  IF lines = <<>> THEN 0
  ELSE LET max == TotalDelay(SubSeq(lines, 1, Len(lines) - 1))
           d   == OrElse(ParseInt(lines[Len(lines)].delay), 0)
       IN  IF d > max THEN d ELSE max

\* The timers of lines 1..n (0..n-1 in the code), set in document order.
RECURSIVE LineTimers(_, _, _)
LineTimers(ts, lines, n) ==
  IF n = 0 THEN ts
  ELSE Schedule(LineTimers(ts, lines, n - 1),
                Timer("lineVisible", n, LineDelay(lines[n], n - 1)))

\* animateTerminal()
AnimateTerminal ==
  /\ calls["animateTerminal"] = 0
  /\ calls' = Count(calls, "animateTerminal")
  /\ timers' = Schedule(LineTimers(timers, terminalLines, Len(terminalLines)),
                        Timer("showBegin", 0, TotalDelay(terminalLines) + 800))
  /\ UNCHANGED <<phaseVars, counterVars, typewriterVars, askVars, countdownVars,
                 starfieldVars, terminalVars>>

\* () => line.classList.add('visible')
LineVisibleTimer ==
  /\ Fires("lineVisible")
  /\ terminalLines' = [terminalLines EXCEPT ![Fired.arg].visible = TRUE]
  /\ timers' = Rest
  /\ UNCHANGED <<orchestratorVars, counterVars, typewriterVars, askVars, countdownVars,
                 starfieldVars, beginShown>>

\* () => $btnBegin.classList.add('show')
ShowBeginTimer ==
  /\ Fires("showBegin")
  /\ beginShown' = TRUE
  /\ timers' = Rest
  /\ UNCHANGED <<orchestratorVars, counterVars, typewriterVars, askVars, countdownVars,
                 starfieldVars, terminalLines>>

\* The landing screen with up to MaxLines terminal lines, none visible yet.
TerminalInit ==
  /\ OrchestratorInit
  /\ timers = <<>>
  /\ clock = 0
  /\ CounterIdle
  /\ paragraphs = <<>>
  /\ TypewriterIdle
  /\ AskIdle
  /\ confettiDefined = FALSE
  /\ CountdownIdle
  /\ StarfieldStarted
  /\ canvasSize = <<1280, 720>>
  /\ \E n \in 0..MaxLines :
       terminalLines \in [1..n -> [delay : DelayAttrs, visible : {FALSE}]]
  /\ beginShown = FALSE

TerminalNext ==
  \/ AnimateTerminal
  \/ LineVisibleTimer
  \/ ShowBeginTimer

TerminalSpec == TerminalInit /\ [][TerminalNext]_vars

\* C21: whatever the terminal lines and their delay attributes (present, zero or
\* missing), the begin control is shown only when every terminal line is visible.
C21_BeginAfterAllLines ==
  beginShown => \A i \in 1..Len(terminalLines) : terminalLines[i].visible

\* The timers of the arc sequence of scheduleStatusUpdates.
ArcTimers == {"arriving", "delivered", "established", "resolve"}

\* C22: in a run whose availability check finds the renderer, at whichever check,
\* buildGlobe runs exactly once and no further check is pending; the arc sequence
\* is started once, by the settle timer and not before it; the promise is resolved
\* by the last timer of the arc sequence and never by the fallback branch.  A run
\* whose polling has ended keeps its outcome when the renderer's availability
\* changes afterwards: a run that fell back never builds, a step that changes the
\* availability builds in the run that made the check and in no other.
C22_BuildsOnceWhenAvailable ==
  /\ [](\A r \in Runs :
          /\ runs[r].built <= 1
          /\ runs[r].arcRuns <= runs[r].built
          /\ runs[r].built = 1 =>
               /\ globeDefined
               /\ Pending({"waitForGlobe"}, r) = {}
               /\ runs[r].gaveUpAt = -1
               /\ "fallback" \notin runs[r].resolvers
               /\ Cardinality(Pending({"settle"}, r)) = 1 - runs[r].arcRuns
               /\ runs[r].arcRuns = 0 => Pending(ArcTimers, r) = {}
               /\ runs[r].settled => runs[r].arcRuns = 1 /\ runs[r].resolvers = {"arc"}
               /\ runs[r].arcRuns = 1 /\ ~runs[r].settled =>
                    \E i \in 1..Len(timers) : timers[i].kind = "resolve" /\ timers[i].arg = r
          /\ runs[r].gaveUpAt # -1 => runs[r].built = 0 /\ runs[r].arcRuns = 0)
  /\ [][globeDefined' # globeDefined =>
          \A r \in Runs :
            (runs[r].built = 1 \/ runs[r].gaveUpAt # -1) => runs'[r] = runs[r]]_vars

\* The only run found the renderer at a check made after the globe phase came up,
\* 400 ms after the click, that is at its third check or later: it has just built.
C22_Witness ==
  /\ Len(runs) = 1
  /\ runs[1].built = 1
  /\ globePhase
  /\ \E i \in 1..Len(timers) : timers[i] = Timer("settle", 1, 1500)

====
